---- MODULE Spec2Model ----
(***************************************************************************)
(* Model of delimited_file_checker.ParseDelimitedFile: one validation run  *)
(* over one input file, and the exit status __main__ derives from it.      *)
(*                                                                         *)
(* A row of the input file is a tuple of one-character strings.  Field     *)
(* text is abstracted to the letter "a"; the delimiter and the quote       *)
(* character are kept, since they are what csv.reader acts on.             *)
(***************************************************************************)
EXTENDS Integers, Sequences, FiniteSets, TLC

\* ------------------------------------------------------------- bounds
\* Longest input file, in rows handed out by csv.reader.
MaxRows == 5
\* Largest expected_delimiter_count passed to the constructor.
MaxExpected == 3

\* Longest file of the reporting specification SpecBig, in rows.
MaxBigRows == 102
\* Longest file of the key specification SpecKeys, in rows.
MaxKeyRows == 3
\* Most directory entries the walk of SpecDir yields.
MaxDirFiles == 3

\* ---------------------------------------------------------- constants
\* ParseDelimitedFile.BAD_RECORD_REPORTING_THRESHOLD
BAD_RECORD_REPORTING_THRESHOLD == 100
DELIMITER == ","
QUOTECHAR == "\""
\* save_bad_records: record_count + delimiter_count / 10000
KEY_SCALE == 10000

\* The rows a file is built from: a blank row, rows of one, two and three
\* fields, and a row of two fields whose first field is quoted and holds
\* the delimiter.
Lines ==
    { <<>>,
      <<"a">>,
      <<"a", ",", "a">>,
      <<"a", ",", "a", ",", "a">>,
      <<"\"", "a", ",", "a", "\"", ",", "a">> }

VARIABLES
    pc,                                  \* "scan" | "done" | "exited" | "idle"
    file,                                \* rows csv.reader has handed out so far
    ignore_over_count,                   \* self.ignore_over_count
    expected_delimiter_count,            \* self.expected_delimiter_count
    write_output_file,                   \* self.write_output_file
    replacement_delimiter,               \* keyword the caller passes; "" when none
    bad_records,                         \* self.bad_records: key -> record text
    ctr,                                 \* read_delimited_record: ctr
    record_count,                        \* parse_records locals
    header_delimiter_count,
    nested_delimiter_count,
    max_record_length,
    record_over_count,
    record_under_count,
    record_equal_count,
    actual_not_expected_delimiter_count,
    delimiters_found,
    outcome,                             \* "NONE" | "GOOD" | "FAIR" | "BAD"
    result,                              \* value parse_records returned
    error,                               \* "none" | "FileNotFound" | "UnicodeDecodeError" | "TypeError"
    exit_code,                           \* -1 while the process runs
    report,                              \* bad-record lines appended to message
    notice_logged,                       \* "Bad record count exceeded ..." was logged
    artifact_written,                    \* filename + FILESUFFIX was opened for writing
    fixed_file,                          \* lines written to filename + "_FIXED"
    filesuffix,                          \* directory mode: the configured suffix
    dir_files,                           \* directory mode: entries rglob yields, in order
    dir_pc,                              \* directory mode: "idle" | "walk" | "exited"
    dir_index,                           \* directory mode: entries consumed so far
    validated,                           \* directory mode: indexes handed to parse_records
    error_count,                         \* parse_directory: error_count
    dir_exit                             \* directory mode: exit status, -1 while running

config == <<ignore_over_count, expected_delimiter_count, write_output_file,
            replacement_delimiter>>
reporting == <<report, notice_logged, artifact_written, fixed_file>>
dirvars == <<filesuffix, dir_files, dir_pc, dir_index, validated, error_count,
             dir_exit>>
locals == <<record_count, header_delimiter_count, nested_delimiter_count,
            max_record_length, record_over_count, record_under_count,
            record_equal_count, actual_not_expected_delimiter_count,
            delimiters_found>>
vars == <<pc, file, config, bad_records, ctr, locals, outcome, result, error,
          exit_code, reporting, dirvars>>

\* ------------------------------------------------------------ helpers
RECURSIVE SumLen(_)
SumLen(fields) ==
    IF fields = <<>> THEN 0 ELSE Len(Head(fields)) + SumLen(Tail(fields))

RECURSIVE Join(_)
\* self.delimiter.join(record_fields)
Join(fields) ==
    IF fields = <<>> THEN <<>>
    ELSE IF Len(fields) = 1 THEN Head(fields)
    ELSE Head(fields) \o <<DELIMITER>> \o Join(Tail(fields))

\* any(self.delimiter in f for f in record_fields)
HasNested(fields) ==
    \E i \in 1..Len(fields) : \E j \in 1..Len(fields[i]) : fields[i][j] = DELIMITER

\* csv.reader with the default (excel) dialect: quotechar '"', doublequote,
\* not strict.  One call parses one row; st is the reader's parse state.
RECURSIVE csv_parse(_, _, _, _, _)
csv_parse(line, i, st, fld, fields) ==
    IF i > Len(line) THEN
        IF st = "START_RECORD" THEN fields
        ELSE Append(fields, fld)
    ELSE
        LET c == line[i] IN
        CASE st \in {"START_RECORD", "START_FIELD"} ->
                IF c = QUOTECHAR THEN
                    csv_parse(line, i + 1, "IN_QUOTED_FIELD", <<>>, fields)
                ELSE IF c = DELIMITER THEN
                    csv_parse(line, i + 1, "START_FIELD", <<>>, Append(fields, <<>>))
                ELSE
                    csv_parse(line, i + 1, "IN_FIELD", <<c>>, fields)
          [] st = "IN_FIELD" ->
                IF c = DELIMITER THEN
                    csv_parse(line, i + 1, "START_FIELD", <<>>, Append(fields, fld))
                ELSE
                    csv_parse(line, i + 1, "IN_FIELD", Append(fld, c), fields)
          [] st = "IN_QUOTED_FIELD" ->
                IF c = QUOTECHAR THEN
                    csv_parse(line, i + 1, "QUOTE_IN_QUOTED_FIELD", fld, fields)
                ELSE
                    csv_parse(line, i + 1, "IN_QUOTED_FIELD", Append(fld, c), fields)
          [] OTHER ->   \* QUOTE_IN_QUOTED_FIELD
                IF c = QUOTECHAR THEN
                    csv_parse(line, i + 1, "IN_QUOTED_FIELD", Append(fld, c), fields)
                ELSE IF c = DELIMITER THEN
                    csv_parse(line, i + 1, "START_FIELD", <<>>, Append(fields, fld))
                ELSE
                    csv_parse(line, i + 1, "IN_FIELD", Append(fld, c), fields)

\* A reader that splits at every delimiter character, quoted or not.
RECURSIVE split_parse(_, _, _, _)
split_parse(line, i, fld, fields) ==
    IF i > Len(line) THEN
        IF line = <<>> THEN fields ELSE Append(fields, fld)
    ELSE IF line[i] = DELIMITER THEN
        split_parse(line, i + 1, <<>>, Append(fields, fld))
    ELSE
        split_parse(line, i + 1, Append(fld, line[i]), fields)

csv_reader_unquoted(line) == split_parse(line, 1, <<>>, <<>>)

csv_reader(line) == csv_parse(line, 1, "START_RECORD", <<>>, <<>>)

\* read_delimited_record: total_field_length + delimiter_count
RecordLength(fields) == SumLen(fields) + (Len(fields) - 1)

\* save_bad_records: the key f"{record_count + delimiter_count / 10000:0>14.4f}",
\* held as the integer whose decimal digits the string shows.
BadRecordKey(rc, dc) == rc * KEY_SCALE + dc

save_bad_records(map, record, rc, dc) ==
    LET key == BadRecordKey(rc, dc) IN
    [k \in DOMAIN map \cup {key} |-> IF k = key THEN record ELSE map[k]]

\* delimiters_found[detail_delimiter_count] += 1, created at 1
Tally(map, dc) ==
    [k \in DOMAIN map \cup {dc} |->
        IF k = dc THEN (IF dc \in DOMAIN map THEN map[dc] + 1 ELSE 1) ELSE map[k]]

\* the three-way classification of a detail record against the header
\* The comparison with its operands swapped.
IsOver_swapped(detail, header) == detail < header

IsOver(detail, header) == detail > header
IsEqual(detail, header) == detail = header

\* expected count configured and not met
NotExpected(detail) ==
    expected_delimiter_count > 0 /\ detail # expected_delimiter_count

\* A save condition that passes over-count records.
IsBadRecord_underonly(detail, header) ==
    (detail < header) \/ NotExpected(detail)

\* the condition under which a detail record is saved as bad
IsBadRecord(detail, header) ==
    (header # detail) \/ NotExpected(detail)

\* __init__: 0 if expected_delimiter_count <= 0 else expected_delimiter_count
NormalizeExpected(e) == IF e <= 0 THEN 0 ELSE e

\* __init__'s parameters; any other keyword makes the call raise TypeError.
InitParameters ==
    {"delimiter", "filename", "write_output_file", "ignore_over_count",
     "expected_delimiter_count", "batch_id"}

PassedKeywords ==
    IF replacement_delimiter = "" THEN {} ELSE {"replacement_delimiter"}

ConstructorRaises == ~(PassedKeywords \subseteq InitParameters)

\* Directory mode is not running.
DirIdle ==
    /\ filesuffix = "csv"
    /\ dir_files = <<>>
    /\ dir_pc = "idle"
    /\ dir_index = 0
    /\ validated = <<>>
    /\ error_count = 0
    /\ dir_exit = -1

\* Nothing reported or written yet.
NothingWritten ==
    /\ report = <<>>
    /\ notice_logged = FALSE
    /\ artifact_written = FALSE
    /\ fixed_file = <<>>

\* ---------------------------------------------------------------- Init
Init ==
    /\ file = <<>>
    /\ ignore_over_count \in BOOLEAN
    /\ \E e \in -1..MaxExpected : expected_delimiter_count = NormalizeExpected(e)
    /\ write_output_file \in BOOLEAN
    /\ replacement_delimiter \in {"", "|"}
    /\ IF ConstructorRaises
       THEN pc = "exited" /\ error = "TypeError" /\ exit_code = 1
       ELSE pc = "scan" /\ error = "none" /\ exit_code = -1
    /\ NothingWritten
    /\ DirIdle
    /\ bad_records = <<>>
    /\ ctr = 0
    /\ record_count = 0
    /\ header_delimiter_count = 0
    /\ nested_delimiter_count = 0
    /\ max_record_length = 0
    /\ record_over_count = 0
    /\ record_under_count = 0
    /\ record_equal_count = 0
    /\ actual_not_expected_delimiter_count = 0
    /\ delimiters_found = <<>>
    /\ outcome = "NONE"
    /\ result = -1

\* ------------------------------------------------------------- actions
\* One iteration of csv.reader's loop in read_delimited_record, and, when
\* the row is yielded, one iteration of the loop in parse_records.
ReadRecord ==
    /\ pc = "scan"
    /\ ctr < MaxRows
    /\ \E line \in Lines :
        LET record_fields == csv_reader(line)
            record_length == RecordLength(record_fields)
            record        == Join(record_fields)
            field_count   == Len(record_fields)
            n             == ctr + 1
            nested        == IF HasNested(record_fields)
                             THEN nested_delimiter_count + 1
                             ELSE nested_delimiter_count
            maxlen        == IF record_length > max_record_length
                             THEN record_length ELSE max_record_length
            detail        == field_count - 1
        IN
        /\ file' = Append(file, line)
        /\ ctr' = n
        /\ IF record_length > 0 THEN
              /\ record_count' = n
              /\ max_record_length' = maxlen
              /\ nested_delimiter_count' = nested
              /\ IF n = 1 THEN
                    /\ header_delimiter_count' = field_count - 1
                    /\ bad_records' = save_bad_records(bad_records, record, n,
                                                       field_count - 1)
                    /\ UNCHANGED <<record_over_count, record_under_count,
                                   record_equal_count,
                                   actual_not_expected_delimiter_count,
                                   delimiters_found>>
                 ELSE
                    /\ record_over_count' =
                          IF IsOver(detail, header_delimiter_count)
                          THEN record_over_count + 1 ELSE record_over_count
                    /\ record_equal_count' =
                          IF ~IsOver(detail, header_delimiter_count)
                             /\ IsEqual(detail, header_delimiter_count)
                          THEN record_equal_count + 1 ELSE record_equal_count
                    /\ record_under_count' =
                          IF ~IsOver(detail, header_delimiter_count)
                             /\ ~IsEqual(detail, header_delimiter_count)
                          THEN record_under_count + 1 ELSE record_under_count
                    /\ actual_not_expected_delimiter_count' =
                          IF NotExpected(detail)
                          THEN actual_not_expected_delimiter_count + 1
                          ELSE actual_not_expected_delimiter_count
                    /\ bad_records' =
                          IF IsBadRecord(detail, header_delimiter_count)
                          THEN save_bad_records(bad_records, record, n, detail)
                          ELSE bad_records
                    /\ delimiters_found' = Tally(delimiters_found, detail)
                    /\ UNCHANGED header_delimiter_count
           ELSE
              UNCHANGED <<locals, bad_records>>
    /\ UNCHANGED <<pc, config, outcome, result, error, exit_code, reporting,
                   dirvars>>

\* ---------------------------------------------- the scan as a function
\* What read_delimited_record computes for one row of csv.reader.
ParsedRow(line) ==
    LET record_fields == csv_reader(line) IN
    [record        |-> Join(record_fields),
     record_length |-> RecordLength(record_fields),
     field_count   |-> Len(record_fields),
     nested        |-> HasNested(record_fields)]

\* A row known only by its delimiter count dc: dc + 1 fields of one
\* character each, none holding the delimiter.
CountedRow(dc) ==
    [record        |-> <<"row", dc>>,
     record_length |-> 2 * dc + 1,
     field_count   |-> dc + 1,
     nested        |-> FALSE]

\* The state the scan starts from.
ScanStart ==
    [ctr |-> 0, record_count |-> 0, header_delimiter_count |-> 0,
     nested_delimiter_count |-> 0, max_record_length |-> 0,
     record_over_count |-> 0, record_under_count |-> 0,
     record_equal_count |-> 0, actual_not_expected_delimiter_count |-> 0,
     delimiters_found |-> <<>>, bad_records |-> <<>>]

\* One row through read_delimited_record and the body of parse_records' loop.
ScanStep(s, row) ==
    LET n      == s.ctr + 1
        detail == row.field_count - 1
        seen   == [s EXCEPT
                     !.ctr = n,
                     !.record_count = n,
                     !.max_record_length =
                         IF row.record_length > @ THEN row.record_length ELSE @,
                     !.nested_delimiter_count = IF row.nested THEN @ + 1 ELSE @]
    IN
    IF row.record_length <= 0 THEN [s EXCEPT !.ctr = n]
    ELSE IF n = 1 THEN
        [seen EXCEPT
           !.header_delimiter_count = row.field_count - 1,
           !.bad_records = save_bad_records(@, row.record, n, row.field_count - 1)]
    ELSE
        [seen EXCEPT
           !.record_over_count =
               IF IsOver(detail, s.header_delimiter_count) THEN @ + 1 ELSE @,
           !.record_equal_count =
               IF ~IsOver(detail, s.header_delimiter_count)
                  /\ IsEqual(detail, s.header_delimiter_count) THEN @ + 1 ELSE @,
           !.record_under_count =
               IF ~IsOver(detail, s.header_delimiter_count)
                  /\ ~IsEqual(detail, s.header_delimiter_count) THEN @ + 1 ELSE @,
           !.actual_not_expected_delimiter_count =
               IF NotExpected(detail) THEN @ + 1 ELSE @,
           !.bad_records =
               IF IsBadRecord(detail, s.header_delimiter_count)
               THEN save_bad_records(@, row.record, n, detail) ELSE @,
           !.delimiters_found = Tally(@, detail)]

\* The scan of a whole sequence of rows.
RECURSIVE Scan(_)
Scan(rows) ==
    IF rows = <<>> THEN ScanStart
    ELSE CHOOSE after \in {ScanStep(before, rows[Len(rows)]) :
                               before \in {Scan(SubSeq(rows, 1, Len(rows) - 1))}} :
             TRUE

\* The scan's state, as one record.
ScanState ==
    [ctr |-> ctr, record_count |-> record_count,
     header_delimiter_count |-> header_delimiter_count,
     nested_delimiter_count |-> nested_delimiter_count,
     max_record_length |-> max_record_length,
     record_over_count |-> record_over_count,
     record_under_count |-> record_under_count,
     record_equal_count |-> record_equal_count,
     actual_not_expected_delimiter_count |-> actual_not_expected_delimiter_count,
     delimiters_found |-> delimiters_found, bad_records |-> bad_records]

\* The variables of the scan take the values of the record s.
ScanIs(s) ==
    /\ ctr = s.ctr
    /\ record_count = s.record_count
    /\ header_delimiter_count = s.header_delimiter_count
    /\ nested_delimiter_count = s.nested_delimiter_count
    /\ max_record_length = s.max_record_length
    /\ record_over_count = s.record_over_count
    /\ record_under_count = s.record_under_count
    /\ record_equal_count = s.record_equal_count
    /\ actual_not_expected_delimiter_count = s.actual_not_expected_delimiter_count
    /\ delimiters_found = s.delimiters_found
    /\ bad_records = s.bad_records

\* The scan moves to the state s.
ScanBecomes(s) ==
    /\ ctr' = s.ctr
    /\ record_count' = s.record_count
    /\ header_delimiter_count' = s.header_delimiter_count
    /\ nested_delimiter_count' = s.nested_delimiter_count
    /\ max_record_length' = s.max_record_length
    /\ record_over_count' = s.record_over_count
    /\ record_under_count' = s.record_under_count
    /\ record_equal_count' = s.record_equal_count
    /\ actual_not_expected_delimiter_count' = s.actual_not_expected_delimiter_count
    /\ delimiters_found' = s.delimiters_found
    /\ bad_records' = s.bad_records

ParsedRows(rows) == [i \in 1..Len(rows) |-> ParsedRow(rows[i])]

\* The outcome and the return value parse_records derives from a scan s.
OutcomeOf(s) ==
    IF Cardinality(DOMAIN s.bad_records) - 1 = 0 THEN "GOOD"
    ELSE IF ignore_over_count /\ s.record_over_count > 0
            /\ s.record_under_count = 0 THEN "FAIR"
    ELSE "BAD"

ResultOf(s) ==
    IF OutcomeOf(s) = "BAD" THEN 0 ELSE s.header_delimiter_count

\* the outcome parse_records reports once the reader is exhausted
\* A GOOD test that also takes the empty map.
IsGood_atmost == Cardinality(DOMAIN bad_records) - 1 <= 0

IsGood == Cardinality(DOMAIN bad_records) - 1 = 0
IsFair == ignore_over_count /\ record_over_count > 0 /\ record_under_count = 0

\* sorted(self.bad_records.keys()): the keys are strings of one width, so
\* their order is that of the numbers they show.
RECURSIVE SortedKeys(_)
SortedKeys(keys) ==
    IF keys = {} THEN <<>>
    ELSE LET least == CHOOSE k \in keys : \A other \in keys : k <= other
         IN <<least>> \o SortedKeys(keys \ {least})

\* A listing loop with no threshold.
Listed_all(counter) == TRUE

\* the report loop: the entry at position counter is appended to message
Listed(counter) == counter <= BAD_RECORD_REPORTING_THRESHOLD

\* the report loop: the elif branch that logs the truncation notice
NoticeAt(counter) ==
    ~Listed(counter) /\ counter = BAD_RECORD_REPORTING_THRESHOLD

\* the lines the report loop appends to message, in order
ReportLines ==
    LET keys == SortedKeys(DOMAIN bad_records)
        shown == SelectSeq([c \in 1..Len(keys) |-> c], Listed)
    IN [i \in 1..Len(shown) |->
            [key |-> keys[shown[i]],
             record |-> bad_records[keys[shown[i]]],
             header |-> shown[i] = 1]]

NoticeLogged ==
    \E counter \in 1..Cardinality(DOMAIN bad_records) : NoticeAt(counter)

\* The figures logged under "- Bad    :" in the summary of a BAD run.
BadSummary ==
    [under |-> record_under_count,
     equal |-> record_equal_count,
     over  |-> record_over_count]

\* An artifact written whatever the option says.
WritesArtifact_always == TRUE

\* An artifact never written.
WritesArtifact_never == FALSE

\* if self.write_output_file: open(self.filename + self.FILESUFFIX, "w")
WritesArtifact == write_output_file

\* csv.reader is exhausted: parse_records decides the outcome, and on BAD
\* builds the report, writes the artifact if asked to, and returns.
EndOfFile ==
    /\ pc = "scan"
    /\ pc' = "done"
    /\ IF IsGood THEN
          /\ outcome' = "GOOD" /\ result' = header_delimiter_count
          /\ UNCHANGED reporting
       ELSE IF IsFair THEN
          /\ outcome' = "FAIR" /\ result' = header_delimiter_count
          /\ UNCHANGED reporting
       ELSE
          /\ outcome' = "BAD" /\ result' = 0
          /\ report' = ReportLines
          /\ notice_logged' = NoticeLogged
          /\ artifact_written' = WritesArtifact
          /\ UNCHANGED fixed_file
    /\ UNCHANGED <<file, config, bad_records, ctr, locals, error, exit_code,
                   dirvars>>

\* open() raises FileNotFoundError: the error is logged and sys.exit(1).
FileNotFound ==
    /\ pc = "scan"
    /\ ctr = 0
    /\ pc' = "exited"
    /\ error' = "FileNotFound"
    /\ exit_code' = 1
    /\ UNCHANGED <<file, config, bad_records, ctr, locals, outcome, result,
                   reporting, dirvars>>

\* A decode error that is only recorded: the scan goes on.
DecodeError_swallowed ==
    /\ pc = "scan"
    /\ error = "none"
    /\ error' = "UnicodeDecodeError"
    /\ UNCHANGED <<pc, file, config, bad_records, ctr, locals, outcome, result,
                   exit_code, reporting, dirvars>>

\* Reading the next row raises UnicodeDecodeError: logged, sys.exit(1).
DecodeError ==
    /\ pc = "scan"
    /\ pc' = "exited"
    /\ error' = "UnicodeDecodeError"
    /\ exit_code' = 1
    /\ UNCHANGED <<file, config, bad_records, ctr, locals, outcome, result,
                   reporting, dirvars>>

\* __main__: sys.exit(0) if pdf.parse_records() is truthy, else sys.exit(1)
ExitStatus(returned) == IF returned # 0 THEN 0 ELSE 1

MainExit ==
    /\ pc = "done"
    /\ pc' = "exited"
    /\ exit_code' = ExitStatus(result)
    /\ UNCHANGED <<file, config, bad_records, ctr, locals, outcome, result, error,
                   reporting, dirvars>>

Next ==
    \/ ReadRecord
    \/ EndOfFile
    \/ FileNotFound
    \/ DecodeError
    \/ MainExit

Spec == Init /\ [][Next]_vars

\* ----------------------------------------------- files known by counts
\* The key of save_bad_records on rows of up to KEY_SCALE + 2 fields: the
\* rows are given by their delimiter counts, and go through the same scan.
KeyCounts == {0, 1, KEY_SCALE - 1, KEY_SCALE, KEY_SCALE + 1}

\* A constructed checker with default options that has read nothing.
FreshRun ==
    /\ pc = "scan"
    /\ replacement_delimiter = ""
    /\ ScanIs(ScanStart)
    /\ outcome = "NONE"
    /\ result = -1
    /\ error = "none"
    /\ exit_code = -1
    /\ NothingWritten

InitKeys ==
    /\ file = <<>>
    /\ ignore_over_count = FALSE
    /\ expected_delimiter_count = 0
    /\ write_output_file = FALSE
    /\ FreshRun
    /\ DirIdle

ReadCounted ==
    /\ pc = "scan"
    /\ ctr < MaxKeyRows
    /\ \E dc \in KeyCounts :
          /\ file' = Append(file, CountedRow(dc))
          /\ ScanBecomes(ScanStep(ScanState, CountedRow(dc)))
    /\ UNCHANGED <<pc, config, outcome, result, error, exit_code, reporting,
                   dirvars>>

NextKeys ==
    \/ ReadCounted
    \/ EndOfFile

SpecKeys == InitKeys /\ [][NextKeys]_vars

\* ------------------------------------------------------- long files
\* The end of the scan of a file of up to MaxBigRows rows: a two-field
\* header followed by copies of one detail row.
BigFile(n, line) == [i \in 1..n |-> IF i = 1 THEN <<"a", ",", "a">> ELSE line]

InitBig ==
    /\ \E n \in 0..MaxBigRows :
       \E line \in {<<"a">>, <<"a", ",", "a">>, <<"a", ",", "a", ",", "a">>} :
          file = BigFile(n, line)
    /\ ignore_over_count \in BOOLEAN
    /\ expected_delimiter_count = 0
    /\ write_output_file \in BOOLEAN
    /\ pc = "scan"
    /\ replacement_delimiter = ""
    /\ \E scanned \in {Scan(ParsedRows(file))} : ScanIs(scanned)
    /\ outcome = "NONE"
    /\ result = -1
    /\ error = "none"
    /\ exit_code = -1
    /\ NothingWritten
    /\ DirIdle

NextBig ==
    \/ EndOfFile
    \/ MainExit

SpecBig == InitBig /\ [][NextBig]_vars

\* --------------------------------------------------- directory mode
\* delimitedfilechecker.ParseDelimitedFile, the checker that directory mode
\* imports: one row through read_delimited_record and the loop body.
OldScanStart == [ctr |-> 0, header_delimiter_count |-> 0, badrecords |-> <<>>]

OldScanStep(s, row) ==
    LET n == s.ctr + 1 IN
    IF row.record_length <= 0 THEN [s EXCEPT !.ctr = n]
    ELSE IF n = 1 THEN
        [ctr |-> n,
         header_delimiter_count |-> row.field_count - 1,
         badrecords |-> save_bad_records(s.badrecords, row.record, n,
                                         row.field_count - 1)]
    ELSE IF s.header_delimiter_count # row.field_count - 1 THEN
        [s EXCEPT !.ctr = n,
                  !.badrecords = save_bad_records(@, row.record, n,
                                                  row.field_count - 1)]
    ELSE [s EXCEPT !.ctr = n]

RECURSIVE OldScan(_)
OldScan(rows) ==
    IF rows = <<>> THEN OldScanStart
    ELSE CHOOSE after \in {OldScanStep(before, rows[Len(rows)]) :
                               before \in {OldScan(SubSeq(rows, 1, Len(rows) - 1))}} :
             TRUE

\* What delimitedfilechecker's parse_records logs and returns for a file.
OldParseRecords(rows) ==
    LET s == OldScan(ParsedRows(rows)) IN
    IF Cardinality(DOMAIN s.badrecords) - 1 # 0
    THEN [outcome |-> "BAD", result |-> 0]
    ELSE [outcome |-> "GOOD", result |-> s.header_delimiter_count]

\* str.lower() on the suffixes of the model.
Lower(suffix) ==
    CASE suffix = "CSV" -> "csv"
      [] suffix = "ERROR_DELIMITER" -> "error_delimiter"
      [] OTHER -> suffix

\* The suffix of the artifact a BAD run writes.
ERROR_DELIMITER_FILE_SUFFIX == "ERROR_DELIMITER"

Suffixes == {"csv", "CSV", "txt", ERROR_DELIMITER_FILE_SUFFIX}

\* The rows a readable directory entry holds.
Contents ==
    { <<<<"a", ",", "a">>, <<"a", ",", "a">>>>,
      <<<<"a", ",", "a">>, <<"a">>>>,
      <<<<"a">>, <<"a">>>> }

\* A directory entry: its suffix, and its rows or the fact that opening or
\* decoding it fails.
Entries ==
    [suffix : Suffixes, readable : {TRUE}, content : Contents]
        \cup [suffix : Suffixes, readable : {FALSE}, content : {<<>>}]

\* every sequence over S of length at most n
RECURSIVE SeqsUpTo(_, _)
SeqsUpTo(S, n) ==
    IF n = 0 THEN {<<>>}
    ELSE LET shorter == SeqsUpTo(S, n - 1) IN
         shorter \cup {Append(q, x) : q \in shorter, x \in S}

\* iter_files_by_extension: path.suffix.lower() in norm_exts
Matches(entry) == Lower(entry.suffix) = Lower(filesuffix)

InitDir ==
    /\ file = <<>>
    /\ ignore_over_count = FALSE
    /\ expected_delimiter_count = 0
    /\ write_output_file = TRUE
    /\ FreshRun
    /\ filesuffix \in {"csv", ERROR_DELIMITER_FILE_SUFFIX}
    /\ dir_files \in SeqsUpTo(Entries, MaxDirFiles)
    /\ dir_pc = "walk"
    /\ dir_index = 0
    /\ validated = <<>>
    /\ error_count = 0
    /\ dir_exit = -1

filevars ==
    <<pc, file, config, bad_records, ctr, locals, outcome, result, exit_code,
      reporting>>

\* The walk passes a path whose suffix is not the configured one.
WalkSkip ==
    /\ dir_pc = "walk"
    /\ dir_index < Len(dir_files)
    /\ ~Matches(dir_files[dir_index + 1])
    /\ dir_index' = dir_index + 1
    /\ UNCHANGED <<filevars, error, filesuffix, dir_files, dir_pc, validated,
                   error_count, dir_exit>>

\* The loop body on a file that can be read: parse_records returns, and a
\* false return value is counted.
ValidateFile ==
    /\ dir_pc = "walk"
    /\ dir_index < Len(dir_files)
    /\ Matches(dir_files[dir_index + 1])
    /\ dir_files[dir_index + 1].readable
    /\ dir_index' = dir_index + 1
    /\ validated' = Append(validated, dir_index + 1)
    /\ error_count' =
          IF OldParseRecords(dir_files[dir_index + 1].content).result = 0
          THEN error_count + 1 ELSE error_count
    /\ UNCHANGED <<filevars, error, filesuffix, dir_files, dir_pc, dir_exit>>

\* The loop body on a file that cannot be opened or decoded:
\* read_delimited_record raises SystemExit(1), which "except Exception"
\* does not catch, so it leaves parse_directory and ends the process.
ValidateFileExits ==
    /\ dir_pc = "walk"
    /\ dir_index < Len(dir_files)
    /\ Matches(dir_files[dir_index + 1])
    /\ ~dir_files[dir_index + 1].readable
    /\ \E raised \in {"FileNotFound", "UnicodeDecodeError"} : error' = raised
    /\ dir_index' = dir_index + 1
    /\ validated' = Append(validated, dir_index + 1)
    /\ dir_pc' = "exited"
    /\ dir_exit' = 1
    /\ UNCHANGED <<filevars, filesuffix, dir_files, error_count>>

\* The walk is exhausted: sys.exit(1) if error_count, else a normal end.
DirEnd ==
    /\ dir_pc = "walk"
    /\ dir_index = Len(dir_files)
    /\ dir_pc' = "exited"
    /\ dir_exit' = IF error_count # 0 THEN 1 ELSE 0
    /\ UNCHANGED <<filevars, error, filesuffix, dir_files, dir_index, validated,
                   error_count>>

NextDir ==
    \/ WalkSkip
    \/ ValidateFile
    \/ ValidateFileExits
    \/ DirEnd

SpecDir == InitDir /\ [][NextDir]_vars

\* ------------------------------------------ the file, as the spec reads it
\* A row is blank when its computed length is zero or less.
IsBlankRow(line) == RecordLength(csv_reader(line)) <= 0

\* The file's records: its rows with the blank rows left out.
Records == SelectSeq(file, LAMBDA line : ~IsBlankRow(line))

\* Delimiter count of a record: its field count minus one.
DelimiterCount(line) == Len(csv_reader(line)) - 1

HasHeader == Records # <<>>
HeaderCount == DelimiterCount(Records[1])
Details == 2..Len(Records)
DetailCount(i) == DelimiterCount(Records[i])

\* A detail record is bad when it disagrees with the header or with the
\* configured expected count.
FailsExpected(i) ==
    expected_delimiter_count > 0 /\ DetailCount(i) # expected_delimiter_count
IsBadDetail(i) == DetailCount(i) # HeaderCount \/ FailsExpected(i)

\* parse_records has returned (to __main__, which may have exited since).
Returned == outcome # "NONE"

\* The row at position p of the file has an entry in the bad-record map.
Stored(p) == \E k \in DOMAIN bad_records : k \div KEY_SCALE = p

\* ------------------------------------------------------------- claims

\* C1: with no explicit expected delimiter count, a file whose detail
\* records all have the header's field count (a header with no detail
\* records included) is reported GOOD and parse_records returns the header's
\* field count minus one.
C1_AllMatchIsGood ==
    (/\ Returned
     /\ expected_delimiter_count = 0
     /\ HasHeader
     /\ \A i \in Details : DetailCount(i) = HeaderCount)
    => (outcome = "GOOD" /\ result = HeaderCount)

\* C2: with ignore_over_count false, a file with at least one detail record
\* that is under-count, or that equals the header's count but differs from
\* the configured expected count, is reported BAD and parse_records returns 0.
C2_UnderOrExpectedMismatchIsBad ==
    (/\ Returned
     /\ ~ignore_over_count
     /\ HasHeader
     /\ \E i \in Details :
            \/ DetailCount(i) < HeaderCount
            \/ (DetailCount(i) = HeaderCount /\ FailsExpected(i)))
    => (outcome = "BAD" /\ result = 0)

\* C3: with ignore_over_count true, a file with at least one mismatching
\* detail record, all of whose mismatches are over-count, is reported FAIR
\* and parse_records returns the header delimiter count.
C3_OnlyOverIsFair ==
    (/\ Returned
     /\ ignore_over_count
     /\ HasHeader
     /\ \E i \in Details : DetailCount(i) # HeaderCount
     /\ \A i \in Details : DetailCount(i) >= HeaderCount)
    => (outcome = "FAIR" /\ result = HeaderCount)

\* C4: with ignore_over_count true, a file with at least one under-count
\* detail record is reported BAD and parse_records returns 0, however many
\* over-count records it holds.
C4_UnderIsBadEvenWhenIgnoring ==
    (/\ Returned
     /\ ignore_over_count
     /\ HasHeader
     /\ \E i \in Details : DetailCount(i) < HeaderCount)
    => (outcome = "BAD" /\ result = 0)

\* C5: the outcome is FAIR only if ignore_over_count is enabled and every
\* bad detail record of the file is over-count: a FAIR file holds no
\* under-count record and no record that equals the header count but fails
\* the configured expected count.
C5_FairOnlyOverCount ==
    outcome = "FAIR"
    => (/\ ignore_over_count
        /\ HasHeader
        /\ \A i \in Details : IsBadDetail(i) => DetailCount(i) > HeaderCount)

\* The file of scenario C: col1,col2,col3 / val1,val2,val3 / val4,val5 /
\* val6 / val7.
ScenarioC ==
    << <<"a", ",", "a", ",", "a">>,
       <<"a", ",", "a", ",", "a">>,
       <<"a", ",", "a">>,
       <<"a">>,
       <<"a">> >>

C7_BadRecordIffMismatch ==
    (expected_delimiter_count > 0 /\ HasHeader)
    => (/\ \A p \in 1..Len(file) :
              LET before == SelectSeq(SubSeq(file, 1, p - 1),
                                      LAMBDA line : ~IsBlankRow(line))
                  dc == DelimiterCount(file[p])
              IN (~IsBlankRow(file[p]) /\ before # <<>>)
                 => (Stored(p) <=> (dc # HeaderCount
                                    \/ dc # expected_delimiter_count))
        /\ (/\ Returned
            /\ expected_delimiter_count = 3
            /\ HeaderCount = 2
            /\ Details # {}
            /\ \A i \in Details : DetailCount(i) = 2)
           => outcome = "BAD")

\* Field count of a row by quote-aware counting: one more than the number
\* of delimiter characters that stand outside a quoted field.
RECURSIVE UnquotedDelimiters(_, _, _)
UnquotedDelimiters(line, i, quoted) ==
    IF i > Len(line) THEN 0
    ELSE IF line[i] = QUOTECHAR THEN UnquotedDelimiters(line, i + 1, ~quoted)
    ELSE (IF line[i] = DELIMITER /\ ~quoted THEN 1 ELSE 0)
         + UnquotedDelimiters(line, i + 1, quoted)

RECURSIVE RawDelimiters(_)
RawDelimiters(line) ==
    IF line = <<>> THEN 0
    ELSE (IF Head(line) = DELIMITER THEN 1 ELSE 0) + RawDelimiters(Tail(line))

NestedLine == <<"\"", "a", ",", "a", "\"", ",", "a">>

\* C8: a delimiter inside a quoted field never adds to a record's field
\* count: the header count is the header row's number of delimiters outside
\* quotes, every later non-blank row is stored as bad exactly when its number
\* of delimiters outside quotes differs from the header count (or from the
\* expected count), under a key carrying that number, so a row with a quoted
\* delimiter matches a header with as many fields, and a row with an extra
\* unquoted field is flagged.
C8_QuotedDelimitersNotCounted ==
    /\ (file # <<>> /\ file[1] # <<>>)
       => header_delimiter_count = UnquotedDelimiters(file[1], 1, FALSE)
    /\ \A p \in 2..Len(file) :
          LET dc == UnquotedDelimiters(file[p], 1, FALSE) IN
          file[p] # <<>>
          => /\ Stored(p) <=> (dc # header_delimiter_count \/ NotExpected(dc))
             /\ Stored(p) => BadRecordKey(p, dc) \in DOMAIN bad_records
    /\ \A p \in 2..Len(file) :
          (file[1] = <<"a", ",", "a">> /\ expected_delimiter_count = 0)
          => /\ file[p] = NestedLine
                => (~Stored(p) /\ RawDelimiters(file[p]) > header_delimiter_count)
             /\ file[p] = <<"a", ",", "a", ",", "a">> => Stored(p)

C8_Witness ==
    /\ pc = "done"
    /\ outcome = "GOOD"
    /\ result = 1
    /\ Len(file) >= 2
    /\ file[1] = <<"a", ",", "a">>
    /\ file[2] = NestedLine

\* C9: the process exits with code 0 when the outcome is GOOD or FAIR, and
\* with a non-zero code when the outcome is BAD, the file is not found or it
\* cannot be decoded.
C9_ExitCodeFollowsOutcome ==
    pc = "exited"
    => /\ outcome \in {"GOOD", "FAIR"} => exit_code = 0
       /\ (outcome = "BAD" \/ error # "none") => exit_code # 0

\* C10: after the scan of any file the bad-record map holds exactly one
\* more entry than the file has bad detail records (the header placeholder),
\* so it holds exactly one entry if and only if the outcome is GOOD.
C10_MapIsBadRecordsPlusHeader ==
    Returned
    => /\ Cardinality(DOMAIN bad_records)
            = Cardinality({i \in Details : IsBadDetail(i)}) + 1
       /\ (Cardinality(DOMAIN bad_records) = 1 <=> outcome = "GOOD")

\* C11: within one run every stored record gets a key of its own, so the
\* map holds one entry per record that was saved, whatever the delimiter
\* counts of the records are.
SavedRows ==
    {i \in 1..Len(file) :
        i = 1 \/ IsBadRecord(file[i].field_count - 1, file[1].field_count - 1)}

C11_KeysAreUnique ==
    /\ \A i, j \in SavedRows :
          i # j => BadRecordKey(i, file[i].field_count - 1)
                     # BadRecordKey(j, file[j].field_count - 1)
    /\ Cardinality(DOMAIN bad_records) = Cardinality(SavedRows)

\* C12: blank rows consume no record index: the file with its blank rows
\* removed gives the same keys, header, counters, map, outcome and result.
C12_BlankRowsChangeNothing ==
    Returned =>
        LET s == Scan(ParsedRows(Records)) IN
        /\ bad_records = s.bad_records
        /\ header_delimiter_count = s.header_delimiter_count
        /\ record_count = s.record_count
        /\ record_over_count = s.record_over_count
        /\ record_under_count = s.record_under_count
        /\ record_equal_count = s.record_equal_count
        /\ actual_not_expected_delimiter_count
             = s.actual_not_expected_delimiter_count
        /\ outcome = OutcomeOf(s)
        /\ result = ResultOf(s)

\* C13: the artifact file is written only when the write-output option is
\* on and the run has ended with an outcome other than GOOD.
C13_ArtifactOnlyWhenAskedAndNotGood ==
    artifact_written =>
        /\ write_output_file
        /\ Returned
        /\ outcome # "GOOD"

C13_Witness ==
    /\ artifact_written
    /\ outcome = "BAD"
    /\ Len(report) >= 2

\* C14: a run whose map holds more entries than the reporting threshold
\* logs the notice that the listing was cut.
C14_NoticeWhenOverThreshold ==
    (Returned /\ Cardinality(DOMAIN bad_records) > BAD_RECORD_REPORTING_THRESHOLD)
        => notice_logged

\* C15: the listing of the report and of the artifact holds at most
\* BAD_RECORD_REPORTING_THRESHOLD entries, the header among them, and they
\* are the entries with the least keys.
C15_ReportAtMostThreshold ==
    /\ Len(report) <= BAD_RECORD_REPORTING_THRESHOLD
    /\ outcome = "BAD" =>
          /\ Len(report) <= Cardinality(DOMAIN bad_records)
          /\ Len(report) < Cardinality(DOMAIN bad_records)
               => Len(report) = BAD_RECORD_REPORTING_THRESHOLD
          /\ \A i \in 1..Len(report) :
                /\ report[i].header = (i = 1)
                /\ report[i].record = bad_records[report[i].key]
                /\ Cardinality({k \in DOMAIN bad_records : k < report[i].key})
                     = i - 1

C15_Witness ==
    /\ outcome = "BAD"
    /\ Cardinality(DOMAIN bad_records) > BAD_RECORD_REPORTING_THRESHOLD
    /\ Len(report) = BAD_RECORD_REPORTING_THRESHOLD
    /\ artifact_written

\* C16: a file that cannot be opened or decoded ends the run at once with a
\* non-zero exit status: no outcome is reported and no artifact is written.
C16_FatalErrorExitsWithoutOutcome ==
    error \in {"FileNotFound", "UnicodeDecodeError"} =>
        /\ pc = "exited"
        /\ exit_code # 0
        /\ exit_code # -1
        /\ outcome = "NONE"
        /\ result = -1
        /\ ~artifact_written
        /\ report = <<>>

C16_Witness ==
    /\ error = "UnicodeDecodeError"
    /\ pc = "exited"
    /\ exit_code = 1
    /\ write_output_file
    /\ Cardinality(DOMAIN bad_records) >= 2

\* C17: in directory mode a file that cannot be opened or decoded does not
\* end the run: every matching file is validated, and each failed file
\* counts as one error.
MatchingFiles == {i \in 1..Len(dir_files) : Matches(dir_files[i])}
ValidatedFiles == {validated[i] : i \in 1..Len(validated)}
UnreadableFiles == {i \in MatchingFiles : ~dir_files[i].readable}

C17_FatalErrorDoesNotAbortDirectory ==
    dir_pc = "exited" =>
        /\ ValidatedFiles = MatchingFiles
        /\ error_count >= Cardinality(UnreadableFiles)

\* C18: the directory error count is the number of matching files that are
\* BAD or whose run raised, a GOOD file is never counted, and the run exits
\* non-zero exactly when the count is positive.
BadFiles ==
    {i \in MatchingFiles :
        /\ dir_files[i].readable
        /\ OldParseRecords(dir_files[i].content).outcome = "BAD"}

C18_ErrorCountIsBadFiles ==
    dir_pc = "exited" =>
        /\ error_count = Cardinality(BadFiles \cup UnreadableFiles)
        /\ (dir_exit # 0) <=> (error_count > 0)

\* C19: directory mode validates no file that carries the artifact suffix,
\* whatever file suffix is configured.
C19_ArtifactsNeverValidated ==
    \A i \in ValidatedFiles :
        Lower(dir_files[i].suffix) # Lower(ERROR_DELIMITER_FILE_SUFFIX)

\* C20: with a replacement delimiter configured, a GOOD or FAIR run writes
\* every record in order with its fields joined by the replacement
\* delimiter and still returns the header delimiter count, and a BAD run
\* writes nothing.
RECURSIVE JoinWith(_, _)
JoinWith(fields, separator) ==
    IF fields = <<>> THEN <<>>
    ELSE IF Len(fields) = 1 THEN Head(fields)
    ELSE Head(fields) \o <<separator>> \o JoinWith(Tail(fields), separator)

Rewritten ==
    [i \in 1..Len(Records) |->
        JoinWith(csv_reader(Records[i]), replacement_delimiter)]

C20_ReplacementWritesFixedFile ==
    replacement_delimiter # "" =>
        /\ error # "TypeError"
        /\ outcome \in {"GOOD", "FAIR"} =>
              /\ fixed_file = Rewritten
              /\ result = header_delimiter_count
        /\ outcome = "BAD" => fixed_file = <<>>

\* C21: the report lists the stored records in ascending order of record
\* index, and the entry shown with the header mark is the record of index 1.
KeyOfRow(p) == BadRecordKey(p, file[p].field_count - 1)

\* The row whose save left the entry of key k in the map: the last one.
RowOfKey(k) ==
    CHOOSE p \in SavedRows :
        /\ KeyOfRow(p) = k
        /\ \A q \in SavedRows : KeyOfRow(q) = k => q <= p

C21_ReportInRecordOrder ==
    outcome = "BAD" =>
        /\ \A i, j \in 1..Len(report) :
              i < j => RowOfKey(report[i].key) < RowOfKey(report[j].key)
        /\ \A i \in 1..Len(report) :
              report[i].header => RowOfKey(report[i].key) = 1

\* C22: in the summary of a BAD run the figures under "Bad" count bad
\* records: "Equal" counts the records that match the header and fail the
\* expected count, and the three figures sum to the bad-record total.
EqualButNotExpected ==
    {i \in Details : DetailCount(i) = HeaderCount /\ FailsExpected(i)}

C22_BadSummaryCountsBadRecords ==
    (outcome = "BAD" /\ HasHeader) =>
        /\ BadSummary.equal = Cardinality(EqualButNotExpected)
        /\ BadSummary.under + BadSummary.equal + BadSummary.over
             = Cardinality(DOMAIN bad_records) - 1

\* C23: after the scan the delimiter distribution maps each delimiter count
\* seen in a detail record to the number of detail records that have it:
\* the header is left out, every other non-blank record is counted once,
\* and the values sum to under + equal + over.
RECURSIVE SumOver(_, _)
SumOver(f, S) ==
    IF S = {} THEN 0
    ELSE LET k == CHOOSE x \in S : TRUE IN f[k] + SumOver(f, S \ {k})

C23_DistributionCountsDetails ==
    Returned =>
        /\ DOMAIN delimiters_found = {DetailCount(i) : i \in Details}
        /\ \A dc \in DOMAIN delimiters_found :
              delimiters_found[dc]
                = Cardinality({i \in Details : DetailCount(i) = dc})
        /\ SumOver(delimiters_found, DOMAIN delimiters_found)
             = record_under_count + record_equal_count + record_over_count

\* C24: with ignore_over_count off and no expected count, the checker of
\* delimitedfilechecker.py returns the same value and builds the same
\* bad-record map as the checker of delimited_file_checker.py, on every file.
DefaultOptions == ~ignore_over_count /\ expected_delimiter_count = 0

C24_OlderVariantAgrees ==
    (Returned /\ DefaultOptions) =>
        /\ bad_records = OldScan(ParsedRows(file)).badrecords
        /\ result = OldParseRecords(file).result

C24_Witness ==
    /\ Returned
    /\ DefaultOptions
    /\ outcome = "BAD"
    /\ \E p \in 1..Len(file) : p > 1 /\ IsBlankRow(file[p])
    /\ record_over_count > 0
    /\ record_under_count > 0
    /\ nested_delimiter_count > 0

\* C25: a FAIR run returns before the report is built and writes no
\* artifact even when write_output_file is on; an artifact is written
\* exactly when write_output_file is on and the run took the BAD branch,
\* which returns 0.
C25_ArtifactIffBadAndAsked ==
    Returned =>
        /\ artifact_written <=> (write_output_file /\ outcome = "BAD")
        /\ outcome = "BAD" => result = 0
        /\ outcome = "FAIR" => (report = <<>> /\ ~artifact_written)

C25_Witness ==
    /\ outcome = "FAIR"
    /\ write_output_file
    /\ ~artifact_written
    /\ Cardinality(DOMAIN bad_records) >= 2

\* C26: a file with no non-blank record gets no header placeholder and
\* takes the BAD branch, returning 0, under every setting of the options;
\* the checker of delimitedfilechecker.py does the same.
C26_EmptyFileIsBad ==
    (Returned /\ Records = <<>>) =>
        /\ bad_records = <<>>
        /\ outcome = "BAD"
        /\ result = 0
        /\ OldParseRecords(file) = [outcome |-> "BAD", result |-> 0]

C26_Witness ==
    /\ Returned
    /\ Records = <<>>
    /\ Len(file) >= 2
    /\ ignore_over_count
    /\ expected_delimiter_count > 0
    /\ outcome = "BAD"

====
